---- MODULE Spec2Model ----
(***************************************************************************)
(* rust-buffer: a fixed-capacity circular buffer (mod buffer, the core     *)
(* ring) behind Arc<RwLock<..>> (struct Buffer, the shared handle).        *)
(*                                                                         *)
(* The element type T is modelled by small integers (a sized type with no  *)
(* destructor, as in the crate's test), for which Vec::with_capacity(n)    *)
(* allocates exactly n slots and overwriting a slot drops nothing.         *)
(* Vec indices are 0-based in the source and 1-based here: slot k of the   *)
(* source is buffer[k + 1].  Option<T> is a sequence of length 0 (None)    *)
(* or 1 (Some).                                                            *)
(***************************************************************************)
EXTENDS Integers, Sequences, FiniteSets, TLC

\* ---------------------------------------------------------------- bounds
MaxCap == 3          \* capacities 0 .. MaxCap are constructed
MaxVal == 2          \* pushed values are 1 .. MaxVal
MaxSlice == 2        \* push_slice is called with slices of length 0 .. MaxSlice
MaxHist == 5         \* at most MaxHist pushes between two clears
NThreads == 2        \* threads that share the handle
ShCap == 2           \* capacities 0 .. ShCap when the threads share the ring
ShHist == 3          \* at most ShHist pushes between two clears when they do
FairCap == 2         \* capacities 1 .. FairCap under the fair lock
FairHist == 2        \* values pushed between two clears under the fair lock
PushesPerThread == 2 \* pushes of each thread in the pushers scenario

Threads == 1 .. NThreads
Values == 1 .. MaxVal
\* What an uninitialised slot may hold: a value nobody pushes, or one somebody does.
Uninit == {0, 1}
Slices == UNION {[1 .. n -> Values] : n \in 0 .. MaxSlice}
ReaderOps == {"len", "is_empty", "capacity", "fill_level", "head", "snapshot"}
WriterOps == {"push", "push_slice", "clear"}

VARIABLES
    ring,       \* the buffer::Buffer inside the RwLock: [buffer, len, pos]
    lock,       \* the RwLock: [writer: 0 or a thread, readers: set of threads]
    pc,         \* per thread: "idle", the handle operation it is inside, "panicked"
    call,       \* per thread: the slice being pushed and how many elements are done
    todo,       \* per thread: the values it still has to push (pushers scenario)
    hist,       \* ghost: values pushed since construction or the last clear, in lock order
    fresh,      \* ghost: no clear has run since construction
    committed,  \* ghost: the ring as it was when the write lock was last free
    seen        \* ghost, per reader inside: the rings left by the completed writes
                \* (the points of the write order) since it took the lock

vars == <<ring, lock, pc, call, todo, hist, fresh, committed, seen>>

Min(a, b) == IF a < b THEN a ELSE b
LastN(s, n) == SubSeq(s, Len(s) - n + 1, Len(s))
None == <<>>
Some(v) == <<v>>
NoCall == [slice |-> <<>>, i |-> 0]

\* ------------------------------------------------------------- core ring
\* Vec::with_capacity + set_len: `capacity` slots whose contents are whatever
\* the memory held (mem).
new(capacity, mem) == [buffer |-> mem, len |-> 0, pos |-> 0]

len(b) == b.len

is_empty(b) == len(b) = 0

capacity(b) == Len(b.buffer)

\* inc_pos without the wrap of the cursor at `capacity`.
inc_pos_no_wrap(b) ==
    LET l2 == IF b.len < capacity(b) THEN b.len + 1 ELSE b.len
    IN  [b EXCEPT !.pos = b.pos + 1, !.len = l2]

\* inc_pos without the `len < capacity` test.
inc_pos_unbounded_len(b) ==
    LET p1 == b.pos + 1
        p2 == IF p1 = capacity(b) THEN 0 ELSE p1
    IN  [b EXCEPT !.pos = p2, !.len = b.len + 1]

inc_pos(b) ==
    LET p1 == b.pos + 1
        cap == capacity(b)
        p2 == IF p1 = cap THEN 0 ELSE p1
        l2 == IF b.len < cap THEN b.len + 1 ELSE b.len
    IN  [b EXCEPT !.pos = p2, !.len = l2]

\* fill_level with the `capacity` arm tried before the `0` arm.
fill_level_full_first(b) ==
    IF len(b) = capacity(b) THEN "Full"
    ELSE IF len(b) = 0 THEN "Empty"
    ELSE "Partial"

\* fill_level matching on the cursor instead of the length.
fill_level_of_pos(b) ==
    IF b.pos = 0 THEN "Empty"
    ELSE IF b.pos = capacity(b) THEN "Full"
    ELSE "Partial"

fill_level(b) ==
    LET cap == capacity(b)
    IN  IF len(b) = 0 THEN "Empty"
        ELSE IF len(b) = cap THEN "Full"
        ELSE "Partial"

\* self.buffer[self.pos] is bounds-checked: out of bounds is a panic.
push_in_bounds(b) == b.pos < Len(b.buffer)

\* push advancing the cursor before it writes the slot.
push_after_inc(b, value) ==
    LET a == inc_pos(b) IN [a EXCEPT !.buffer[a.pos + 1] = value]

push(b, value) == inc_pos([b EXCEPT !.buffer[b.pos + 1] = value])

\* clear forgetting the length.
clear_keeps_len(b) == [b EXCEPT !.pos = 0]

\* clear forgetting the cursor.
clear_keeps_pos(b) == [b EXCEPT !.len = 0]

clear(b) == [b EXCEPT !.len = 0, !.pos = 0]

\* head reading the slot at the cursor instead of the one before it.
head_at_pos(b) ==
    IF fill_level(b) = "Empty" THEN None
    ELSE IF b.pos < Len(b.buffer) THEN Some(b.buffer[b.pos + 1]) ELSE None

head(b) ==
    IF fill_level(b) = "Empty" THEN None
    ELSE LET k == IF b.pos = 0 THEN capacity(b) - 1 ELSE b.pos - 1
         IN  IF k >= 0 /\ k < Len(b.buffer) THEN Some(b.buffer[k + 1]) ELSE None

\* snapshot copying a full ring from slot 0, without the rotation at the cursor.
snapshot_unrotated(b) ==
    CASE fill_level(b) = "Partial" -> SubSeq(b.buffer, 1, b.pos)
      [] fill_level(b) = "Full" -> b.buffer
      [] OTHER -> <<>>

snapshot(b) ==
    CASE fill_level(b) = "Partial" -> SubSeq(b.buffer, 1, b.pos)
      [] fill_level(b) = "Full" ->
            SubSeq(b.buffer, b.pos + 1, capacity(b)) \o SubSeq(b.buffer, 1, b.pos)
      [] OTHER -> <<>>

\* The fold push_slice's loop computes: push, once per element, in order.
RECURSIVE pushes(_, _)
pushes(b, s) == IF s = <<>> THEN b ELSE pushes(push(b, Head(s)), Tail(s))

\* What writer operation `op`, called with `slice`, makes of ring b when it runs
\* alone.
Effect(op, slice, b) ==
    CASE op = "push" -> push(b, slice[1])
      [] op = "push_slice" -> pushes(b, slice)
      [] op = "clear" -> clear(b)

\* --------------------------------------------------------------- RwLock
\* parking_lot::RwLock: any number of readers, or one writer.
CanRead == lock.writer = 0

CanWrite == lock.writer = 0 /\ lock.readers = {}

\* -------------------------------------------------- shared handle: readers
\* A reader that does not wait for the writer to leave (a lock-free shortcut).
StartReadUnlocked(t, op) ==
    /\ pc[t] = "idle"
    /\ lock' = [lock EXCEPT !.readers = @ \cup {t}]
    /\ pc' = [pc EXCEPT ![t] = op]
    /\ seen' = [seen EXCEPT ![t] = {committed}]
    /\ UNCHANGED <<ring, call, todo, hist, fresh, committed>>

\* self.buffer.read(): the shared guard lives until the end of the statement.
ReadLock(t, op) ==
    /\ pc[t] = "idle"
    /\ CanRead
    /\ lock' = [lock EXCEPT !.readers = @ \cup {t}]
    /\ pc' = [pc EXCEPT ![t] = op]
    /\ seen' = [seen EXCEPT ![t] = {committed}]
    /\ UNCHANGED <<ring, call, hist, fresh, committed>>

StartRead(t, op) ==
    /\ ReadLock(t, op)
    /\ UNCHANGED todo

\* What reader operation `op` returns on ring b.
Observe(op, b) ==
    CASE op = "len" -> len(b)
      [] op = "is_empty" -> is_empty(b)
      [] op = "capacity" -> capacity(b)
      [] op = "fill_level" -> fill_level(b)
      [] op = "head" -> head(b)
      [] op = "snapshot" -> snapshot(b)

\* What the reader inside its critical section returns.
Returns(t) == Observe(pc[t], ring)

\* A reader that returns with its guard leaked (mem::forget of the guard).
ReadReturnKeepsGuard(t) ==
    /\ t \in lock.readers
    /\ pc' = [pc EXCEPT ![t] = "idle"]
    /\ seen' = [seen EXCEPT ![t] = {}]
    /\ UNCHANGED <<ring, lock, call, todo, hist, fresh, committed>>

\* The guard is dropped and the call returns Returns(t).
ReadReturn(t) ==
    /\ t \in lock.readers
    /\ lock' = [lock EXCEPT !.readers = @ \ {t}]
    /\ pc' = [pc EXCEPT ![t] = "idle"]
    /\ seen' = [seen EXCEPT ![t] = {}]
    /\ UNCHANGED <<ring, call, todo, hist, fresh, committed>>

Buffer_len(t) == pc[t] = "len" /\ ReadReturn(t)

Buffer_is_empty(t) == pc[t] = "is_empty" /\ ReadReturn(t)

Buffer_capacity(t) == pc[t] = "capacity" /\ ReadReturn(t)

Buffer_fill_level(t) == pc[t] = "fill_level" /\ ReadReturn(t)

\* head taking the newest element out of the ring.
Buffer_head_taking(t) ==
    /\ pc[t] = "head"
    /\ t \in lock.readers
    /\ lock' = [lock EXCEPT !.readers = @ \ {t}]
    /\ pc' = [pc EXCEPT ![t] = "idle"]
    /\ seen' = [seen EXCEPT ![t] = {}]
    /\ ring' = [ring EXCEPT !.len = IF @ > 0 THEN @ - 1 ELSE 0]
    /\ UNCHANGED <<call, todo, hist, fresh, committed>>

Buffer_head(t) == pc[t] = "head" /\ ReadReturn(t)

Buffer_snapshot(t) == pc[t] = "snapshot" /\ ReadReturn(t)

\* -------------------------------------------------- shared handle: writers
\* self.buffer.write(): exclusive guard.
WriteLock(t, op, slice) ==
    /\ pc[t] = "idle"
    /\ CanWrite
    /\ lock' = [lock EXCEPT !.writer = t]
    /\ pc' = [pc EXCEPT ![t] = op]
    /\ call' = [call EXCEPT ![t] = [slice |-> slice, i |-> 0]]
    /\ UNCHANGED <<ring, hist, fresh, committed, seen>>

\* The exclusive guard is dropped: on return, or by unwinding after a panic
\* (parking_lot does not poison).
WriteUnlock(t, to, after) ==
    /\ lock' = [lock EXCEPT !.writer = 0]
    /\ pc' = [pc EXCEPT ![t] = to]
    /\ call' = [call EXCEPT ![t] = NoCall]
    /\ committed' = after
    /\ seen' = [u \in Threads |-> IF seen[u] = {} THEN {} ELSE seen[u] \cup {after}]

StartPush(t, value) ==
    /\ WriteLock(t, "push", <<value>>)
    /\ UNCHANGED todo

\* Buffer::push: one core push under the guard, then the guard is dropped.
Buffer_push(t) ==
    /\ pc[t] = "push"
    /\ IF push_in_bounds(ring)
       THEN /\ ring' = push(ring, call[t].slice[1])
            /\ hist' = Append(hist, call[t].slice[1])
            /\ WriteUnlock(t, "idle", push(ring, call[t].slice[1]))
       ELSE /\ UNCHANGED <<ring, hist>>
            /\ WriteUnlock(t, "panicked", ring)
    /\ UNCHANGED <<todo, fresh>>

StartPushSlice(t, slice) ==
    /\ WriteLock(t, "push_slice", slice)
    /\ UNCHANGED todo

\* push_slice walking the slice from its end.
PushSliceIterReversed(t) ==
    /\ pc[t] = "push_slice"
    /\ call[t].i < Len(call[t].slice)
    /\ IF push_in_bounds(ring)
       THEN /\ ring' = push(ring, call[t].slice[Len(call[t].slice) - call[t].i])
            /\ hist' = Append(hist, call[t].slice[Len(call[t].slice) - call[t].i])
            /\ call' = [call EXCEPT ![t].i = @ + 1]
            /\ UNCHANGED <<lock, pc, committed, seen>>
       ELSE /\ UNCHANGED <<ring, hist>>
            /\ WriteUnlock(t, "panicked", ring)
    /\ UNCHANGED <<todo, fresh>>

\* push_slice taking the guard inside the loop: self.buffer.write().push(..)
\* per element, the guard dropped after each.
PushSliceIterRelock(t) ==
    /\ pc[t] = "push_slice"
    /\ call[t].i < Len(call[t].slice)
    /\ lock.writer \in {0, t}
    /\ lock.readers = {}
    /\ IF push_in_bounds(ring)
       THEN /\ ring' = push(ring, call[t].slice[call[t].i + 1])
            /\ hist' = Append(hist, call[t].slice[call[t].i + 1])
            /\ call' = [call EXCEPT ![t].i = @ + 1]
            /\ lock' = [lock EXCEPT !.writer = 0]
            /\ UNCHANGED <<pc, committed, seen>>
       ELSE /\ UNCHANGED <<ring, hist>>
            /\ WriteUnlock(t, "panicked", ring)
    /\ UNCHANGED <<todo, fresh>>

\* One iteration of push_slice's loop, the guard held throughout.
PushSliceIter(t) ==
    /\ pc[t] = "push_slice"
    /\ call[t].i < Len(call[t].slice)
    /\ IF push_in_bounds(ring)
       THEN /\ ring' = push(ring, call[t].slice[call[t].i + 1])
            /\ hist' = Append(hist, call[t].slice[call[t].i + 1])
            /\ call' = [call EXCEPT ![t].i = @ + 1]
            /\ UNCHANGED <<lock, pc, committed, seen>>
       ELSE /\ UNCHANGED <<ring, hist>>
            /\ WriteUnlock(t, "panicked", ring)
    /\ UNCHANGED <<todo, fresh>>

\* The loop is over: `lock` goes out of scope.
PushSliceEnd(t) ==
    /\ pc[t] = "push_slice"
    /\ call[t].i = Len(call[t].slice)
    /\ WriteUnlock(t, "idle", ring)
    /\ UNCHANGED <<ring, todo, hist, fresh>>

Buffer_push_slice(t) == PushSliceIter(t) \/ PushSliceEnd(t)

\* clear taking shared access, self.buffer.read(), instead of exclusive access.
StartClearShared(t) ==
    /\ pc[t] = "idle"
    /\ CanRead
    /\ lock' = [lock EXCEPT !.readers = @ \cup {t}]
    /\ pc' = [pc EXCEPT ![t] = "clear"]
    /\ UNCHANGED <<ring, call, todo, hist, fresh, committed, seen>>

StartClear(t) ==
    /\ WriteLock(t, "clear", <<>>)
    /\ UNCHANGED todo

Buffer_clear(t) ==
    /\ pc[t] = "clear"
    /\ ring' = clear(ring)
    /\ hist' = <<>>
    /\ fresh' = FALSE
    /\ WriteUnlock(t, "idle", clear(ring))
    /\ UNCHANGED todo

\* ------------------------------------------------------- specifications
\* Buffer::new(capacity): the one handle, Arc::new(RwLock::new(ring)).
\* The Arc's strong count, the number of handles on the ring: Buffer::new makes
\* one; Buffer has no Clone impl and nothing calls Arc::clone.
ArcStrongCount == 1

Buffer_new(c, mem) ==
    /\ ring = new(c, mem)
    /\ lock = [writer |-> 0, readers |-> {}]
    /\ committed = ring

Idle ==
    /\ pc = [t \in Threads |-> "idle"]
    /\ call = [t \in Threads |-> NoCall]
    /\ seen = [t \in Threads |-> {}]
    /\ hist = <<>>
    /\ fresh = TRUE

\* Thread t takes one step of a handle operation; `budget` bounds the pushes
\* between two clears.
ThreadStep(t, budget) ==
    \/ \E op \in ReaderOps : StartRead(t, op)
    \/ Buffer_len(t)
    \/ Buffer_is_empty(t)
    \/ Buffer_capacity(t)
    \/ Buffer_fill_level(t)
    \/ Buffer_head(t)
    \/ Buffer_snapshot(t)
    \/ \E value \in Values : Len(hist) < budget /\ StartPush(t, value)
    \/ Buffer_push(t)
    \/ \E slice \in Slices : Len(hist) + Len(slice) <= budget /\ StartPushSlice(t, slice)
    \/ Buffer_push_slice(t)
    \/ StartClear(t)
    \/ Buffer_clear(t)

\* One owner uses the handle; the other threads never call it.
Owner == 1

Init ==
    /\ \E c \in 0 .. MaxCap : \E mem \in [1 .. c -> Uninit] : Buffer_new(c, mem)
    /\ todo = [t \in Threads |-> <<>>]
    /\ Idle

Next == ThreadStep(Owner, MaxHist)

Spec == Init /\ [][Next]_vars

\* Every thread uses the handle (Buffer is Sync: its methods take &self).
InitShared ==
    /\ \E c \in 0 .. ShCap : \E mem \in [1 .. c -> Uninit] : Buffer_new(c, mem)
    /\ todo = [t \in Threads |-> <<>>]
    /\ Idle

NextShared == \E t \in Threads : ThreadStep(t, ShHist)

SpecShared == InitShared /\ [][NextShared]_vars

\* The pushers scenario: every thread pushes PushesPerThread values of its own
\* through the shared handle, into a ring of capacity >= 1; the capacities
\* reach past the number of pushes.
Work(t) == [k \in 1 .. PushesPerThread |-> (t - 1) * PushesPerThread + k]

InitPushers ==
    /\ \E c \in 1 .. MaxCap + 2 : \E mem \in [1 .. c -> Uninit] : Buffer_new(c, mem)
    /\ todo = [t \in Threads |-> Work(t)]
    /\ Idle

PusherStart(t) ==
    /\ todo[t] # <<>>
    /\ WriteLock(t, "push", <<Head(todo[t])>>)
    /\ todo' = [todo EXCEPT ![t] = Tail(@)]

NextPushers == \E t \in Threads : PusherStart(t) \/ Buffer_push(t)

SpecPushers == InitPushers /\ [][NextPushers]_vars

\* ------------------------------------------------------------ fair lock
\* Threads that call the handle while the lock is taken wait for it. The lock
\* is fair: it is handed to the waiting threads in the order of their calls
\* (ticket 1 is the longest waiting), and a thread inside its critical section
\* keeps running. The ring has capacity >= 1. A thread pushes its own number.
Calls(t) ==
    [op : ReaderOps \cup {"clear"}, slice : {<<>>}]
        \cup [op : {"push"}, slice : {<<t>>}]
        \cup [op : {"push_slice"}, slice : {[k \in 1 .. n |-> t] : n \in 0 .. FairHist}]

Queued == {t \in Threads : todo[t] # <<>>}

\* Values that the calls already made are still to push.
RECURSIVE Pending(_)
Pending(n) ==
    IF n = 0 THEN 0
    ELSE Pending(n - 1)
            + (IF todo[n] # <<>> THEN Len(todo[n][1].slice) ELSE 0)
            + (IF pc[n] \in WriterOps THEN Len(call[n].slice) - call[n].i ELSE 0)

\* The thread calls an operation of the handle and asks for the lock.
Call(t, c) ==
    /\ pc[t] = "idle"
    /\ todo[t] = <<>>
    /\ Len(hist) + Pending(NThreads) + Len(c.slice) <= FairHist
    /\ todo' = [todo EXCEPT ![t] =
                   <<[op |-> c.op, slice |-> c.slice, ticket |-> Cardinality(Queued) + 1]>>]
    /\ UNCHANGED <<ring, lock, pc, call, hist, fresh, committed, seen>>

\* The lock is granted to the longest-waiting thread, in the mode it asked for.
Grant(t) ==
    /\ todo[t] # <<>>
    /\ todo[t][1].ticket = 1
    /\ IF todo[t][1].op \in ReaderOps
       THEN ReadLock(t, todo[t][1].op)
       ELSE WriteLock(t, todo[t][1].op, todo[t][1].slice)
    /\ todo' = [u \in Threads |->
                   IF u = t \/ todo[u] = <<>> THEN <<>>
                   ELSE <<[todo[u][1] EXCEPT !.ticket = @ - 1]>>]

\* The steps of a thread that holds the lock.
Inside(t) ==
    \/ Buffer_len(t)
    \/ Buffer_is_empty(t)
    \/ Buffer_capacity(t)
    \/ Buffer_fill_level(t)
    \/ Buffer_head(t)
    \/ Buffer_snapshot(t)
    \/ Buffer_push(t)
    \/ Buffer_push_slice(t)
    \/ Buffer_clear(t)

InitFair ==
    /\ \E c \in 1 .. FairCap : \E mem \in [1 .. c -> Uninit] : Buffer_new(c, mem)
    /\ todo = [t \in Threads |-> <<>>]
    /\ Idle

NextFair ==
    \E t \in Threads :
        \/ \E c \in Calls(t) : Call(t, c)
        \/ Grant(t)
        \/ Inside(t)

SpecFair ==
    /\ InitFair
    /\ [][NextFair]_vars
    /\ \A t \in Threads : WF_vars(Grant(t)) /\ WF_vars(Inside(t))

\* ---------------------------------------------------------------- claims

\* C1: for every capacity c >= 1 and every n values pushed (push or push_slice)
\* into a freshly constructed ring, snapshot() is exactly the last min(n, c)
\* pushed values, oldest first.
SnapshotIsLastPushed ==
    (fresh /\ capacity(ring) >= 1) =>
        snapshot(ring) = LastN(hist, Min(Len(hist), capacity(ring)))

\* More values pushed than the ring holds, the cursor in the middle of the storage.
SnapshotWrapped ==
    /\ fresh
    /\ capacity(ring) >= 2
    /\ Len(hist) > capacity(ring)
    /\ ring.pos # 0
    /\ snapshot(ring) = LastN(hist, capacity(ring))

\* C2: for every capacity c >= 1 and n values pushed into a freshly constructed
\* ring, len() = min(n, c).
LenIsMin ==
    (fresh /\ capacity(ring) >= 1) => len(ring) = Min(Len(hist), capacity(ring))

LenSaturated ==
    /\ fresh
    /\ capacity(ring) >= 1
    /\ Len(hist) > capacity(ring)
    /\ len(ring) = capacity(ring)

\* C3: in every reachable state head() is the last element of snapshot() when
\* snapshot() is non-empty, and none when it is empty.
HeadIsLastOfSnapshot ==
    LET s == snapshot(ring)
    IN  IF s = <<>> THEN head(ring) = None ELSE head(ring) = Some(s[Len(s)])

\* After a clear, a ring filled past its capacity again, the cursor not at slot 0.
HeadOnWrappedRing ==
    /\ ~fresh
    /\ Len(hist) > capacity(ring)
    /\ ring.pos # 0
    /\ head(ring) = Some(hist[Len(hist)])

\* C4: on a ring of capacity 0 every push or push_slice completes without
\* crashing, and len() stays 0, snapshot() empty and head() none.
ZeroCapacityPushIsInert ==
    capacity(ring) = 0 =>
        /\ \A t \in Threads : pc[t] # "panicked"
        /\ len(ring) = 0
        /\ snapshot(ring) = <<>>
        /\ head(ring) = None

\* C5: from any reachable state, clear() makes len() 0, is_empty() true,
\* snapshot() empty and head() none; a second clear() leaves the state unchanged.
ClearResets ==
    [][\A t \in Threads :
          (pc[t] = "clear" /\ pc'[t] = "idle") =>
              /\ len(ring') = 0
              /\ is_empty(ring')
              /\ snapshot(ring') = <<>>
              /\ head(ring') = None
              /\ clear(ring') = ring']_vars

\* A ring cleared while every slot held the same pushed value.
ClearedFullRing ==
    /\ ~fresh
    /\ hist = <<>>
    /\ capacity(ring) >= 2
    /\ \A k \in 1 .. capacity(ring) : ring.buffer[k] = MaxVal
    /\ is_empty(ring)

\* C6: a cleared ring is observationally a new ring of the same capacity: len(),
\* head(), fill_level() and snapshot() are what a new ring (whatever its memory
\* holds) returns after the pushes made since the clear.
ClearedLikeNew ==
    ~fresh =>
        \A mem \in [1 .. capacity(ring) -> Uninit] :
            LET f == pushes(new(capacity(ring), mem), hist)
            IN  \A op \in ReaderOps : Observe(op, ring) = Observe(op, f)

\* Pushes after a clear, while a slot not yet rewritten still holds a value
\* pushed before the clear.
StaleSlotAfterClear ==
    /\ ~fresh
    /\ Len(hist) >= 1
    /\ Len(hist) < capacity(ring)
    /\ ring.buffer[capacity(ring)] = MaxVal

\* C7: push_slice(v) leaves the ring in the state that one push per element of v,
\* in order, leaves it in; push_slice of the empty slice changes nothing.
PushSliceIsPushes ==
    \A t \in Threads :
        (pc[t] = "push_slice" /\ call[t].i = Len(call[t].slice)) =>
            ring = pushes(committed, call[t].slice)

\* The loop of a two-element slice of different values is over, and it wrapped.
PushSliceDone ==
    \E t \in Threads :
        /\ pc[t] = "push_slice"
        /\ Len(call[t].slice) = 2
        /\ call[t].i = 2
        /\ call[t].slice[1] # call[t].slice[2]
        /\ ring.pos < committed.pos

\* C8: push_slice holds the exclusive lock for the whole batch: while a batch is
\* under way nobody else is inside a critical section and the ring is the ring
\* at the batch's start plus the elements pushed so far, and what a reader
\* returns is its operation on a ring with no batch half applied.
BatchIsAtomic ==
    /\ \A t \in Threads :
          pc[t] = "push_slice" =>
              /\ lock.writer = t
              /\ lock.readers = {}
              /\ \A u \in Threads \ {t} : pc[u] \in {"idle", "panicked"}
              /\ ring = pushes(committed, SubSeq(call[t].slice, 1, call[t].i))
    /\ \A u \in Threads :
          pc[u] \in ReaderOps => Returns(u) = Observe(pc[u], committed)

\* One element of a two-element batch is pushed, after another thread's clear.
BatchHalfApplied ==
    \E t \in Threads :
        /\ pc[t] = "push_slice"
        /\ Len(call[t].slice) = 2
        /\ call[t].i = 1
        /\ ring # committed
        /\ ~fresh

\* C9: when NThreads threads have each pushed PushesPerThread distinct values
\* into a ring of capacity c >= 1, len() = min(N*M, c) and snapshot() is the last
\* min(N*M, c) pushes of the lock order, nothing duplicated or missing.
PushersDone == \A t \in Threads : pc[t] = "idle" /\ todo[t] = <<>>

PushersResult ==
    PushersDone =>
        LET n == NThreads * PushesPerThread
            m == Min(n, capacity(ring))
        IN  /\ Len(hist) = n
            /\ {hist[k] : k \in 1 .. n} = 1 .. n
            /\ len(ring) = m
            /\ snapshot(ring) = LastN(hist, m)
            /\ Cardinality({snapshot(ring)[k] : k \in 1 .. m}) = m

\* All done, the threads' pushes interleaved, more pushes than slots.
PushersInterleaved ==
    /\ PushersDone
    /\ capacity(ring) >= 2
    /\ capacity(ring) < Len(hist)
    /\ hist[1] = Work(2)[1]
    /\ hist[Len(hist)] = Work(2)[PushesPerThread]
    /\ snapshot(ring)[1] = Work(1)[PushesPerThread]

Rank(level) == CASE level = "Empty" -> 0 [] level = "Partial" -> 1 [] level = "Full" -> 2

\* C10: on a fresh ring of capacity c under pushes alone fill_level() is Empty
\* with 0 pushes, Partial with more than 0 and fewer than c, Full from c on; no
\* push moves it backwards, a Full ring stays Full; Empty only when len() = 0.
FillLevelMonotone ==
    /\ [](fresh =>
            fill_level(ring) =
                IF Len(hist) = 0 THEN "Empty"
                ELSE IF Len(hist) >= capacity(ring) THEN "Full"
                ELSE "Partial")
    /\ [](fill_level(ring) = "Empty" => len(ring) = 0)
    /\ [][(fresh /\ Len(hist') = Len(hist) + 1) =>
              /\ Rank(fill_level(ring')) >= Rank(fill_level(ring))
              /\ fill_level(ring) = "Full" => fill_level(ring') = "Full"]_vars

\* A fresh ring that was Partial, became Full and took more pushes.
StillFull ==
    /\ fresh
    /\ capacity(ring) >= 2
    /\ Len(hist) > capacity(ring)
    /\ fill_level(ring) = "Full"

\* C11: push, push_slice and clear run under exclusive access: a writer is never
\* inside its critical section together with another writer or with a reader;
\* len, is_empty, capacity, fill_level, head and snapshot take shared access
\* (two of them can be inside together: ReadersTogether).
LockDiscipline ==
    /\ \A t \in Threads :
          pc[t] \in WriterOps =>
              /\ lock.writer = t
              /\ lock.readers = {}
              /\ \A u \in Threads \ {t} : pc[u] \notin WriterOps \cup ReaderOps
    /\ \A t \in Threads :
          pc[t] \in ReaderOps => (t \in lock.readers /\ lock.writer = 0)

\* Two readers inside their critical sections at once, in different operations.
ReadersTogether ==
    \E t, u \in Threads :
        /\ t # u
        /\ pc[t] \in ReaderOps
        /\ pc[u] \in ReaderOps
        /\ pc[t] # pc[u]
        /\ {t, u} \subseteq lock.readers

\* C12: operations on the shared ring are linearizable: the writes take effect
\* one after the other, each as the single-threaded operation on the ring the
\* previous one left; what a reader returns is its operation on the ring left by
\* a completed write no older than the last one before the reader started; the
\* cursor, length and slots a reader sees belong to one such ring.
Linearizable ==
    /\ [](\A t \in Threads :
            pc[t] \in ReaderOps =>
                /\ ring \in seen[t]
                /\ \E b \in seen[t] : Returns(t) = Observe(pc[t], b))
    /\ [](lock.writer = 0 => ring = committed)
    /\ [][committed' # committed =>
              \E w \in Threads :
                  /\ pc[w] \in WriterOps
                  /\ pc'[w] = "idle"
                  /\ committed' = Effect(pc[w], call[w].slice, committed)]_vars

\* A snapshot about to return the pushes other writes left, after a clear, while
\* a second reader is inside too.
LinearizedRead ==
    \E t, u \in Threads :
        /\ t # u
        /\ pc[t] = "snapshot"
        /\ pc[u] \in ReaderOps
        /\ ~fresh
        /\ Len(hist) >= 2
        /\ Returns(t) = LastN(hist, Min(Len(hist), capacity(ring)))
        /\ Returns(t) # <<>>

\* C13: cloning the handle yields a second handle on the same ring: threads
\* inside the ring at once each go through a handle of their own, and what one
\* writes through its handle the others observe through theirs.
EveryUserHoldsAClone ==
    /\ Cardinality({t \in Threads : pc[t] \in ReaderOps \cup WriterOps}) <= ArcStrongCount
    /\ \A t \in Threads :
          pc[t] \in ReaderOps =>
              \A mem \in [1 .. capacity(ring) -> Uninit] :
                  Returns(t) = Observe(pc[t], pushes(new(capacity(ring), mem), hist))

\* C14: in every state reachable on a ring of capacity c >= 1, 0 <= length <= c
\* and 0 <= cursor < c: the slots push, head and snapshot index are in bounds.
IndicesInBounds ==
    capacity(ring) >= 1 =>
        /\ 0 <= ring.len /\ ring.len <= capacity(ring)
        /\ 0 <= ring.pos /\ ring.pos < capacity(ring)
        /\ push_in_bounds(ring)
        /\ Len(snapshot(ring)) = ring.len
        /\ (ring.len > 0 => Len(head(ring)) = 1)

\* After a clear the ring is full again and the cursor is on the last slot.
CursorOnLastSlot ==
    /\ ~fresh
    /\ capacity(ring) >= 2
    /\ ring.len = capacity(ring)
    /\ ring.pos = capacity(ring) - 1

\* C15: whenever the ring is Partial, the cursor equals the length and the valid
\* elements are storage[0 .. cursor), in push order.
PartialStartsAtZero ==
    fill_level(ring) = "Partial" =>
        /\ ring.pos = ring.len
        /\ ring.len = Len(hist)
        /\ SubSeq(ring.buffer, 1, ring.pos) = hist

\* A ring that was full before the clear (every slot past the cursor still
\* holds a pushed value) and is Partial again.
PartialAfterClear ==
    /\ ~fresh
    /\ fill_level(ring) = "Partial"
    /\ capacity(ring) >= 3
    /\ Len(hist) = 1
    /\ \A k \in 2 .. capacity(ring) : ring.buffer[k] = MaxVal

\* C16: on a full ring of capacity >= 1 a push of v overwrites the oldest
\* element: the snapshot loses its first element and gains v at the end, the
\* cursor advances by one modulo the capacity, the length stays the capacity.
PushOnFullOverwritesOldest ==
    [][(fill_level(ring) = "Full" /\ Len(hist') = Len(hist) + 1) =>
          /\ snapshot(ring') = Append(Tail(snapshot(ring)), hist'[Len(hist')])
          /\ ring'.pos = (ring.pos + 1) % capacity(ring)
          /\ len(ring') = capacity(ring)]_vars

\* Every slot of the ring has been overwritten at least once since the ring
\* became full.
OverwrittenTwice ==
    /\ capacity(ring) >= 2
    /\ Len(hist) >= 2 * capacity(ring)
    /\ fill_level(ring) = "Full"
    /\ snapshot(ring) = LastN(hist, capacity(ring))

\* C17: fill_level() is derived from length and capacity: Empty exactly when
\* length = 0, Full exactly when length = capacity and length > 0, Partial
\* otherwise; is_empty() is true exactly when fill_level() is Empty.
FillLevelDerived ==
    /\ fill_level(ring) = "Empty" <=> ring.len = 0
    /\ fill_level(ring) = "Full" <=> (ring.len = capacity(ring) /\ ring.len > 0)
    /\ fill_level(ring) = "Partial" <=> (ring.len # 0 /\ ring.len # capacity(ring))
    /\ is_empty(ring) <=> fill_level(ring) = "Empty"

\* fill_level() about to return Partial on a ring that was cleared.
FillLevelReadsPartial ==
    /\ pc[Owner] = "fill_level"
    /\ ~fresh
    /\ Returns(Owner) = "Partial"
    /\ ~is_empty(ring)

\* C18: len, is_empty, capacity, fill_level, head and snapshot leave cursor,
\* length and every slot unchanged, and capacity() keeps the value given at
\* construction through every push, push_slice and clear.
ReadersChangeNothing ==
    /\ [][(\E t \in Threads : pc[t] \in ReaderOps \/ pc'[t] \in ReaderOps) => ring' = ring]_vars
    /\ [][capacity(ring') = capacity(ring)]_vars

\* capacity() about to return the capacity of a cleared ring that holds pushes.
CapacityRead ==
    /\ pc[Owner] = "capacity"
    /\ ~fresh
    /\ Len(hist) > capacity(ring)
    /\ Returns(Owner) = MaxCap

\* C19: every handle operation acquires the ring lock once and releases it
\* before it returns, never holding it across calls or acquiring it
\* re-entrantly; no interleaving of operations of the threads on a ring of
\* capacity >= 1 deadlocks, and under a fair lock every started operation
\* eventually returns.
LockOncePerCall ==
    /\ [](\A t \in Threads :
            /\ pc[t] \in ReaderOps <=> t \in lock.readers
            /\ pc[t] \in WriterOps <=> lock.writer = t
            /\ ~(t \in lock.readers /\ lock.writer = t))
    /\ [][\A t \in Threads :
            /\ (lock'.writer = t /\ lock.writer # t) =>
                   (pc[t] = "idle" /\ lock.readers = {} /\ lock.writer = 0)
            /\ (t \in lock'.readers /\ t \notin lock.readers) =>
                   (pc[t] = "idle" /\ lock.writer = 0)
            /\ ((lock.writer = t /\ lock'.writer # t)
                    \/ (t \in lock.readers /\ t \notin lock'.readers)) =>
                   (pc'[t] = "idle" /\ todo'[t] = <<>>)]_vars
    /\ [](Queued # {} => \E u \in Threads : ENABLED (Grant(u) \/ Inside(u)))
    /\ \A t \in Threads :
          (todo[t] # <<>> \/ pc[t] \in ReaderOps \cup WriterOps)
              ~> (todo[t] = <<>> /\ pc[t] = "idle")

\* A writer waits for the lock behind a reader that is inside, the ring wrapped.
WriterWaitsForReader ==
    \E t, u \in Threads :
        /\ todo[t] # <<>>
        /\ todo[t][1].op \in WriterOps
        /\ pc[u] \in ReaderOps
        /\ capacity(ring) >= 2
        /\ fill_level(ring) = "Full"

====
